---------------------------- MODULE Spec2Model ----------------------------
(***************************************************************************)
(* A model of time-converter.js: the 12/24-hour string conversions, the    *)
(* UTC-offset arithmetic, the locale catalog built from the zone list and  *)
(* the queries on it.                                                      *)
(*                                                                         *)
(* A JavaScript string is a sequence of one-character strings, so that     *)
(* split, slice, charAt and parseInt are computed character by character.  *)
(* A JavaScript object used as a map is a sequence of [key, val] entries   *)
(* in insertion order (the order Object.keys reports).                     *)
(***************************************************************************)
EXTENDS Integers, Sequences, FiniteSets, TLC

VARIABLES
    fn,       \* the function the last step called ("none" before any call)
    arg,      \* the input that call was given
    ret,      \* what the call returned
    GROUPED_TIMEZONES_LOCALES,  \* the catalog: area -> location -> regions
    CURRENT_TIMEZONES,          \* the record of each role, or null
    timeInput,                  \* timeInput.value
    timeOutput,                 \* timeOutput.textContent
    utcOffsetText,              \* the text of '#origin .utc-offset' and of
                                \* '#target .utc-offset', by panel id
    originDropdownContainer,    \* the container element of each role
    targetDropdownContainer,
    containers,                 \* each container element: the panel that
                                \* holds it and its dropdown divs
    startup,                    \* the fetch of the zone list
    fetches                     \* the fetches of timezone data in flight

\* the record of the last call
callVars == <<fn, arg, ret>>

\* the page: everything but the catalog
pageVars == <<CURRENT_TIMEZONES, timeInput, timeOutput, utcOffsetText,
              originDropdownContainer, targetDropdownContainer, containers,
              startup, fetches>>

\* the program's own state
programVars == <<GROUPED_TIMEZONES_LOCALES, pageVars>>

vars == <<callVars, programVars>>

(***************************************************************************)
(* Bounds of the checked inputs.                                           *)
(***************************************************************************)
\* largest hour of a UTC offset string (real offsets stay within 14:00)
MaxOffsetHour == 14
\* origin times of day range over -MaxDays .. MaxDays whole days around 0
MaxDays == 1
\* longest zone list the catalog is built from
MaxZones == 3

(***************************************************************************)
(* JavaScript strings and numbers.                                         *)
(***************************************************************************)
Digits == <<"0", "1", "2", "3", "4", "5", "6", "7", "8", "9">>

IsDigit(c) == \E i \in 1..Len(Digits) : Digits[i] = c

DigitVal(c) == (CHOOSE i \in 1..Len(Digits) : Digits[i] = c) - 1

\* Number.prototype.toString of an integer
RECURSIVE natToString(_)
natToString(n) ==
    IF n < 10 THEN <<Digits[n + 1]>>
    ELSE natToString(n \div 10) \o <<Digits[(n % 10) + 1]>>

toString(n) == IF n < 0 THEN <<"-">> \o natToString(-n) ELSE natToString(n)

\* String.prototype.split with a one-character separator
RECURSIVE split(_, _)
split(s, sep) ==
    IF \A i \in 1..Len(s) : s[i] # sep THEN <<s>>
    ELSE LET k == CHOOSE i \in 1..Len(s) :
                      s[i] = sep /\ \A j \in 1..(i - 1) : s[j] # sep
         IN  <<SubSeq(s, 1, k - 1)>> \o split(SubSeq(s, k + 1, Len(s)), sep)

\* Array.prototype.join with a one-character (or empty) separator
RECURSIVE join(_, _)
join(parts, sep) ==
    IF Len(parts) = 0 THEN <<>>
    ELSE IF Len(parts) = 1 THEN parts[1]
    ELSE parts[1] \o sep \o join(Tail(parts), sep)

\* the value of the longest run of digits that starts s (0 digits: 0 of 0)
RECURSIVE digitRun(_, _)
digitRun(s, acc) ==
    IF Len(s) = 0 \/ ~IsDigit(s[1]) THEN acc
    ELSE digitRun(Tail(s), acc * 10 + DigitVal(s[1]))

\* parseInt(s) on a string that holds a digit after its optional sign: an
\* optional '+' or '-', then the digits up to the first other character.
\* (A string with no digit there gives NaN, which no input below produces.)
parseInt(s) ==
    IF Len(s) > 0 /\ s[1] = "-" THEN -digitRun(Tail(s), 0)
    ELSE IF Len(s) > 0 /\ s[1] = "+" THEN digitRun(Tail(s), 0)
    ELSE digitRun(s, 0)

\* whether parseInt(s) is a number and not NaN
parsesAsInt(s) ==
    LET t == IF Len(s) > 0 /\ s[1] \in {"-", "+"} THEN Tail(s) ELSE s
    IN  Len(t) > 0 /\ IsDigit(t[1])

\* Math.abs
abs(n) == IF n < 0 THEN -n ELSE n

\* null and undefined, which equal nothing but themselves. A value that may
\* be null is a record: an array that may be null is array(values).
null == [null |-> TRUE]

undefined == [undefined |-> TRUE]

array(values) == [values |-> values]

\* An optional number argument: missing (the parameter is undefined) or
\* given(value).
missing == <<>>

given(v) == <<v>>

\* String.prototype.slice(-n): the last n characters, the whole string when
\* n is 0 or more than the length; with n missing it is slice(NaN), which
\* is slice(0), the whole string.
sliceLast(s, n) ==
    IF n = missing \/ n[1] = 0 \/ n[1] >= Len(s) THEN s
    ELSE SubSeq(s, Len(s) - n[1] + 1, Len(s))

\* the for loop of padNumWithZeros: numOfDigits times '0'; i < undefined is
\* false, so no '0' is pushed when the argument is missing
zeros(numOfDigits) ==
    IF numOfDigits = missing THEN <<>>
    ELSE [i \in 1..numOfDigits[1] |-> "0"]

(***************************************************************************)
(* JavaScript objects used as maps: a sequence of [key, val] entries in    *)
(* insertion order. Keys are locale components, never the name of a        *)
(* property that Object.prototype defines.                                 *)
(***************************************************************************)
\* key in obj
has(obj, key) == \E i \in 1..Len(obj) : obj[i].key = key

\* obj[key] of a key that obj has (of another key it is undefined, which
\* the callers test with has)
get(obj, key) == obj[CHOOSE i \in 1..Len(obj) : obj[i].key = key].val

\* obj[key] = val
put(obj, key, val) ==
    IF has(obj, key)
    THEN [i \in 1..Len(obj) |->
             IF obj[i].key = key THEN [key |-> key, val |-> val] ELSE obj[i]]
    ELSE Append(obj, [key |-> key, val |-> val])

\* Object.keys(obj)
keys(obj) == [i \in 1..Len(obj) |-> obj[i].key]

\* Array.prototype.includes
includes(list, x) == \E i \in 1..Len(list) : list[i] = x

(***************************************************************************)
(* Texts of the page.                                                      *)
(***************************************************************************)
ORIGIN == <<"o", "r", "i", "g", "i", "n">>

TARGET == <<"t", "a", "r", "g", "e", "t">>

\* "--:-- --", the output when there is nothing to show (lines 187, 447)
PLACEHOLDER == <<"-", "-", ":", "-", "-", " ", "-", "-">>

\* 'UTC: N/A' (line 205)
UTC_NA == <<"U", "T", "C", ":", " ", "N", "/", "A">>

\* 'UTC: ' (line 237)
UTC_PREFIX == <<"U", "T", "C", ":", " ">>

(***************************************************************************)
(* The time converter.                                                     *)
(***************************************************************************)
\* convertTimeStringToMilliseconds taking the sign from the parsed hours
\* instead of from the first character
convertTimeStringToMilliseconds_signOfHours(timeString) ==
    LET hoursAndMinutes == split(timeString, ":")
        isNegative == parseInt(hoursAndMinutes[1]) < 0
        hours == abs(parseInt(hoursAndMinutes[1]))
        minutes == hours * 60 + parseInt(hoursAndMinutes[2])
        milliseconds == minutes * 60000
    IN  IF isNegative THEN -milliseconds ELSE milliseconds

\* src/time-converter.js:59
convertTimeStringToMilliseconds(timeString) ==
    LET isNegative == Len(timeString) > 0 /\ timeString[1] = "-"
        hoursAndMinutes == split(timeString, ":")
        hours == abs(parseInt(hoursAndMinutes[1]))
        minutes == hours * 60 + parseInt(hoursAndMinutes[2])
        milliseconds == minutes * 60000
    IN  IF isNegative THEN -milliseconds ELSE milliseconds

\* src/time-converter.js:75
getTimeDifference(originTZ, targetTZ) ==
    LET originUTCOffset == convertTimeStringToMilliseconds(originTZ.utc_offset)
        targetUTCOffset == convertTimeStringToMilliseconds(targetTZ.utc_offset)
    IN  targetUTCOffset - originUTCOffset

\* src/time-converter.js:90
findTimeAtTargetTZ(originTZ, targetTZ, originTime) ==
    LET timeDiff == getTimeDifference(originTZ, targetTZ)
    IN  timeDiff + originTime

\* getHoursAndMinutesFromMilliseconds reading the hour on a 12-hour clock
getHoursAndMinutesFromMilliseconds_12hourClock(milliseconds) ==
    [hours   |-> (milliseconds \div 3600000) % 12,
     minutes |-> (milliseconds \div 60000) % 60]

\* the remainder of JavaScript's % operator, which keeps the dividend's sign
jsRem(a, b) == IF a < 0 THEN -((-a) % b) ELSE a % b

\* getHoursAndMinutesFromMilliseconds computed with Math.trunc and %
\* instead of through a Date
getHoursAndMinutesFromMilliseconds_truncated(milliseconds) ==
    [hours   |-> jsRem(IF milliseconds < 0 THEN -((-milliseconds) \div 3600000)
                       ELSE milliseconds \div 3600000, 24),
     minutes |-> jsRem(IF milliseconds < 0 THEN -((-milliseconds) \div 60000)
                       ELSE milliseconds \div 60000, 60)]

\* src/time-converter.js:101: new Date(ms) read back in UTC. The epoch is
\* midnight, so the hour is the floor of ms / 3600000 modulo 24 and the
\* minute the floor of ms / 60000 modulo 60, for negative ms as well.
getHoursAndMinutesFromMilliseconds(milliseconds) ==
    [hours   |-> (milliseconds \div 3600000) % 24,
     minutes |-> (milliseconds \div 60000) % 60]

\* padNumWithZeros that pads nothing
padNumWithZeros_noPadding(num, numOfDigits) == toString(num)

\* src/time-converter.js:119
padNumWithZeros(num, numOfDigits) ==
    LET digits == zeros(numOfDigits) \o toString(num)
    IN  sliceLast(digits, numOfDigits)

\* convert24HourTimeStringTo12Hour with the noon boundary off by one
convert24HourTimeStringTo12Hour_noonIsAM(timeString) ==
    LET parts == split(timeString, ":")
        hours0 == parseInt(parts[1])
        minutes == parseInt(parts[2])
        period == IF hours0 <= 12 THEN <<"A", "M">> ELSE <<"P", "M">>
        hours == IF hours0 <= 12 THEN hours0 ELSE hours0 - 12
        hourString == IF hours = 0 THEN <<"1", "2">>
                      ELSE padNumWithZeros(hours, given(2))
        minuteString == padNumWithZeros(minutes, given(2))
    IN  hourString \o <<":">> \o minuteString \o <<" ">> \o period

\* src/time-converter.js:135
convert24HourTimeStringTo12Hour(timeString) ==
    LET parts == split(timeString, ":")
        hours0 == parseInt(parts[1])
        minutes == parseInt(parts[2])
        period == IF hours0 < 12 THEN <<"A", "M">> ELSE <<"P", "M">>
        hours == IF hours0 < 12 THEN hours0 ELSE hours0 - 12
        hourString == IF hours = 0 THEN <<"1", "2">>
                      ELSE padNumWithZeros(hours, given(2))
        minuteString == padNumWithZeros(minutes, given(2))
    IN  hourString \o <<":">> \o minuteString \o <<" ">> \o period

\* convert12HourTimeStringTo24Hour without the special case of 12 PM
convert12HourTimeStringTo24Hour_noonPlus12(timeString) ==
    LET sp == split(timeString, " ")
        bareTimeString == sp[1]
        periodIsAM == Len(sp) >= 2 /\ sp[2] = <<"A", "M">>
        parts == split(bareTimeString, ":")
        hours == parseInt(parts[1])
        minutes == parseInt(parts[2])
        minuteString == padNumWithZeros(minutes, given(2))
    IN  IF periodIsAM
        THEN IF hours = 12 THEN <<"0", "0", ":">> \o minuteString
             ELSE bareTimeString
        ELSE padNumWithZeros(hours + 12, missing) \o <<":">> \o minuteString

\* src/time-converter.js:155
convert12HourTimeStringTo24Hour(timeString) ==
    LET sp == split(timeString, " ")
        bareTimeString == sp[1]
        periodIsAM == Len(sp) >= 2 /\ sp[2] = <<"A", "M">>
        parts == split(bareTimeString, ":")
        hours == parseInt(parts[1])
        minutes == parseInt(parts[2])
        minuteString == padNumWithZeros(minutes, given(2))
    IN  IF periodIsAM
        THEN IF hours = 12 THEN <<"0", "0", ":">> \o minuteString
             ELSE bareTimeString
        ELSE LET hourString == IF hours = 12 THEN <<"1", "2">>
                               ELSE padNumWithZeros(hours + 12, missing)
             IN  hourString \o <<":">> \o minuteString

\* updateTimeOutput converting from the target record to the origin record
updateTimeOutput_reversed(timezones, inputValue) ==
    IF ~(/\ get(timezones, ORIGIN) # null
         /\ get(timezones, TARGET) # null
         /\ Len(inputValue) > 0)
    THEN PLACEHOLDER
    ELSE LET timeInputMilliseconds == convertTimeStringToMilliseconds(inputValue)
             targetTimeMilliseconds ==
                 findTimeAtTargetTZ(get(timezones, TARGET), get(timezones, ORIGIN),
                                    timeInputMilliseconds)
             hm == getHoursAndMinutesFromMilliseconds(targetTimeMilliseconds)
         IN  convert24HourTimeStringTo12Hour(
                 toString(hm.hours) \o <<":">> \o toString(hm.minutes))

\* src/time-converter.js:185: the text updateTimeOutput gives the output,
\* from CURRENT_TIMEZONES and timeInput.value as they are when it runs
updateTimeOutput(timezones, inputValue) ==
    IF ~(/\ get(timezones, ORIGIN) # null
         /\ get(timezones, TARGET) # null
         /\ Len(inputValue) > 0)
    THEN PLACEHOLDER
    ELSE LET timeInputMilliseconds == convertTimeStringToMilliseconds(inputValue)
             targetTimeMilliseconds ==
                 findTimeAtTargetTZ(get(timezones, ORIGIN), get(timezones, TARGET),
                                    timeInputMilliseconds)
             hm == getHoursAndMinutesFromMilliseconds(targetTimeMilliseconds)
         IN  convert24HourTimeStringTo12Hour(
                 toString(hm.hours) \o <<":">> \o toString(hm.minutes))

(***************************************************************************)
(* The inputs of the time converter. An input is kept with the numbers it  *)
(* was written from, so that a result can be compared with them.           *)
(***************************************************************************)
TwoDigit(n) == <<Digits[(n \div 10) + 1], Digits[(n % 10) + 1]>>

Unpadded(n) == IF n < 10 THEN <<Digits[n + 1]>> ELSE TwoDigit(n)

Signs == {<<>>, <<"+">>, <<"-">>}

\* '{optional sign}{H or HH}:{MM}', the format of utc_offset (line 56)
OffsetInput(sign, h, m, padded) ==
    [sign |-> sign, hours |-> h, minutes |-> m,
     str |-> sign \o (IF padded THEN TwoDigit(h) ELSE Unpadded(h))
                  \o <<":">> \o TwoDigit(m)]

OffsetInputs ==
    {OffsetInput(sign, h, m, padded) :
        sign \in Signs, h \in 0..MaxOffsetHour, m \in 0..59, padded \in BOOLEAN}

\* the offsets of the records a conversion is checked on: both signs and no
\* sign, a zero hour, a quarter and a half hour, the largest hour
RecordOffsets ==
    {OffsetInput(<<"-">>, 12, 0, TRUE), OffsetInput(<<"-">>, 5, 0, TRUE),
     OffsetInput(<<"-">>, 0, 30, TRUE), OffsetInput(<<>>, 0, 0, TRUE),
     OffsetInput(<<"+">>, 5, 45, TRUE), OffsetInput(<<"+">>, 9, 0, TRUE),
     OffsetInput(<<"+">>, MaxOffsetHour, 0, TRUE)}

\* the record the service returns: only utc_offset is read (line 16)
TZRecord(offset) == [utc_offset |-> offset.str]

\* the offsets of the records updateTimeOutput is checked on
OutputOffsets ==
    RecordOffsets \cup {OffsetInput(<<"+">>, 1, 0, TRUE),
                        OffsetInput(<<"-">>, 8, 0, TRUE)}

\* origin times in whole minutes, before, within and after the day of 0
OriginTimes == (-1440 * MaxDays)..(1440 * (MaxDays + 1) - 1)

\* a 24-hour time string, padded ('05:03') or as updateTimeOutput writes it
\* ('5:3')
Time24Input(h, m, padded) ==
    [hours |-> h, minutes |-> m,
     str |-> IF padded THEN TwoDigit(h) \o <<":">> \o TwoDigit(m)
             ELSE Unpadded(h) \o <<":">> \o Unpadded(m)]

Time24Inputs ==
    {Time24Input(h, m, padded) : h \in 0..23, m \in 0..59, padded \in BOOLEAN}

Periods == {<<"A", "M">>, <<"P", "M">>}

\* a 12-hour time string 'HH:MM AM|PM'
Time12Input(h, m, period) ==
    [hours |-> h, minutes |-> m, period |-> period,
     str |-> TwoDigit(h) \o <<":">> \o TwoDigit(m) \o <<" ">> \o period]

Time12Inputs ==
    {Time12Input(h, m, period) : h \in 1..12, m \in 0..59, period \in Periods}

(***************************************************************************)
(* The page when the script has run to its end (lines 501-515): the        *)
(* catalog is empty, no role has a record, each panel holds an empty       *)
(* dropdown container and the fetch of the zone list is in flight. The     *)
(* markup is not part of the sources; the time input is taken to start     *)
(* empty, the output and the UTC labels to start with the texts the script *)
(* resets them to.                                                         *)
(***************************************************************************)
InitProgram ==
    /\ GROUPED_TIMEZONES_LOCALES = <<>>
    /\ CURRENT_TIMEZONES = <<[key |-> ORIGIN, val |-> null],
                             [key |-> TARGET, val |-> null]>>
    /\ timeInput = <<>>
    /\ timeOutput = PLACEHOLDER
    /\ utcOffsetText = <<[key |-> ORIGIN, val |-> UTC_NA],
                         [key |-> TARGET, val |-> UTC_NA]>>
    /\ originDropdownContainer = 1
    /\ targetDropdownContainer = 2
    /\ containers = <<[parent |-> ORIGIN, dropdowns |-> <<>>],
                      [parent |-> TARGET, dropdowns |-> <<>>]>>
    /\ startup = "pending"
    /\ fetches = {}

(***************************************************************************)
(* SpecPure: the first step calls one function of the time converter on   *)
(* an input of its domain and records the input and the result; a second  *)
(* step feeds a result back.                                               *)
(***************************************************************************)
InitPure ==
    /\ fn = "none" /\ arg = <<>> /\ ret = <<>>
    /\ InitProgram

CallParseOffset ==
    /\ fn = "none"
    /\ \E o \in OffsetInputs :
        /\ fn' = "convertTimeStringToMilliseconds"
        /\ arg' = o
        /\ ret' = convertTimeStringToMilliseconds(o.str)
    /\ UNCHANGED programVars

\* updateTimeOutput's conversion (lines 191-192) of an origin time
CallConvert ==
    /\ fn = "none"
    /\ \E o \in RecordOffsets, t \in RecordOffsets, time \in OriginTimes :
        /\ fn' = "findTimeAtTargetTZ"
        /\ arg' = [origin |-> o, target |-> t, time |-> time]
        /\ ret' = getHoursAndMinutesFromMilliseconds(
                      findTimeAtTargetTZ(TZRecord(o), TZRecord(t), time * 60000))
    /\ UNCHANGED programVars

\* the converted time converted back with the same two records
CallConvertBack ==
    /\ fn = "findTimeAtTargetTZ"
    /\ fn' = "convertBack"
    /\ arg' = arg
    /\ ret' = getHoursAndMinutesFromMilliseconds(
                  findTimeAtTargetTZ(TZRecord(arg.target), TZRecord(arg.origin),
                                     (ret.hours * 60 + ret.minutes) * 60000))
    /\ UNCHANGED programVars

CallFormat12 ==
    /\ fn = "none"
    /\ \E t \in Time24Inputs :
        /\ fn' = "convert24HourTimeStringTo12Hour"
        /\ arg' = t
        /\ ret' = convert24HourTimeStringTo12Hour(t.str)
    /\ UNCHANGED programVars

CallParse12 ==
    /\ fn = "none"
    /\ \E t \in Time12Inputs :
        /\ fn' = "convert12HourTimeStringTo24Hour"
        /\ arg' = t
        /\ ret' = convert12HourTimeStringTo24Hour(t.str)
    /\ UNCHANGED programVars

\* a formatted time parsed back
CallParseOfFormat ==
    /\ fn = "convert24HourTimeStringTo12Hour"
    /\ fn' = "parseOfFormat"
    /\ arg' = arg
    /\ ret' = convert12HourTimeStringTo24Hour(ret)
    /\ UNCHANGED programVars

\* a string the formatter produced, parsed and formatted again
CallFormatOfParse ==
    /\ fn = "convert24HourTimeStringTo12Hour"
    /\ fn' = "formatOfParse"
    /\ arg' = ret
    /\ ret' = convert24HourTimeStringTo12Hour(convert12HourTimeStringTo24Hour(ret))
    /\ UNCHANGED programVars

\* updateTimeOutput on a page where both roles have a record and the time
\* input holds a time 'HH:MM'
CallUpdateTimeOutput ==
    /\ fn = "none"
    /\ \E o \in OutputOffsets, t \in OutputOffsets, v \in Time24Inputs :
        /\ Len(v.str) = 5
        /\ CURRENT_TIMEZONES' = <<[key |-> ORIGIN, val |-> TZRecord(o)],
                                  [key |-> TARGET, val |-> TZRecord(t)]>>
        /\ timeInput' = v.str
        /\ timeOutput' = updateTimeOutput(CURRENT_TIMEZONES', timeInput')
        /\ fn' = "updateTimeOutput"
        /\ arg' = [origin |-> o, target |-> t, time |-> v.hours * 60 + v.minutes]
        /\ ret' = timeOutput'
    /\ UNCHANGED <<GROUPED_TIMEZONES_LOCALES, utcOffsetText,
                   originDropdownContainer, targetDropdownContainer, containers,
                   startup, fetches>>

NextPure ==
    \/ CallUpdateTimeOutput
    \/ CallParseOffset
    \/ CallConvert
    \/ CallConvertBack
    \/ CallFormat12
    \/ CallParse12
    \/ CallParseOfFormat
    \/ CallFormatOfParse

SpecPure == InitPure /\ [][NextPure]_vars

(***************************************************************************)
(* What the results are compared with, written from the numbers of the     *)
(* input and not from its string.                                          *)
(***************************************************************************)
\* the offset of an offset input, in minutes
OffsetValue(o) ==
    (IF o.sign = <<"-">> THEN -1 ELSE 1) * (o.hours * 60 + o.minutes)

\* the offset delta of a conversion's two records, in minutes
Delta(a) == OffsetValue(a.target) - OffsetValue(a.origin)

\* the 12-hour string of hour h and minute m
Expected12(h, m) ==
    TwoDigit(IF h = 0 THEN 12 ELSE IF h <= 12 THEN h ELSE h - 12)
        \o <<":">> \o TwoDigit(m) \o <<" ">>
        \o (IF h < 12 THEN <<"A", "M">> ELSE <<"P", "M">>)

\* the 24-hour hour of a 12-hour hour and its period
Hour24(h, period) ==
    IF period = <<"A", "M">> THEN (IF h = 12 THEN 0 ELSE h)
    ELSE (IF h = 12 THEN 12 ELSE h + 12)

Expected24(h, m) == TwoDigit(h) \o <<":">> \o TwoDigit(m)

(***************************************************************************)
(* C1: a minute of the day 0..1439, converted from origin to target and    *)
(* the result converted back from target to origin with the same two       *)
(* records, is the minute of the day it started from, for every offset     *)
(* delta within -720..720.                                                 *)
(***************************************************************************)
C1_RoundTrip ==
    (/\ fn = "convertBack"
     /\ arg.time \in 0..1439
     /\ Delta(arg) \in (-720)..720)
        => ret = [hours |-> arg.time \div 60, minutes |-> arg.time % 60]

\* a round trip whose first conversion wrapped past midnight
C1_Witness ==
    /\ fn = "convertBack"
    /\ arg.time \in 0..1439
    /\ Delta(arg) \in (-720)..720
    /\ arg.time + Delta(arg) \notin 0..1439
    /\ ret = [hours |-> arg.time \div 60, minutes |-> arg.time % 60]

(***************************************************************************)
(* C2: for every origin time t in minutes and every two records, the       *)
(* converted time has its hours in 0..23, its minutes in 0..59, and        *)
(* hours * 60 + minutes is t + offset(target) - offset(origin) modulo 1440 *)
(* with a non-negative remainder.                                          *)
(***************************************************************************)
C2_WrapsModuloDay ==
    fn = "findTimeAtTargetTZ" =>
        /\ ret.hours \in 0..23
        /\ ret.minutes \in 0..59
        /\ ret.hours * 60 + ret.minutes = (arg.time + Delta(arg)) % 1440

\* a sum of -10 minutes read back as 23:50
C2_Witness ==
    /\ fn = "findTimeAtTargetTZ"
    /\ arg.time + Delta(arg) = -10
    /\ Delta(arg) # 0
    /\ ret = [hours |-> 23, minutes |-> 50]

(***************************************************************************)
(* C3: convertTimeStringToMilliseconds of '[+]H:MM' or '[+]HH:MM' is       *)
(* hours * 60 + minutes minutes (times 60000), negated when the string     *)
(* starts with '-', also when the hour is zero; '-04:00' is -240 minutes,  *)
(* '05:30' is 330 and '00:00' is 0.                                        *)
(***************************************************************************)
C3_ParseOffset ==
    fn = "convertTimeStringToMilliseconds" =>
        /\ ret = OffsetValue(arg) * 60000
        /\ arg.str = <<"-", "0", "4", ":", "0", "0">> => ret = -240 * 60000
        /\ arg.str = <<"0", "5", ":", "3", "0">> => ret = 330 * 60000
        /\ arg.str = <<"0", "0", ":", "0", "0">> => ret = 0

\* '-00:30' parsed as -30 minutes
C3_Witness ==
    /\ fn = "convertTimeStringToMilliseconds"
    /\ arg.str = <<"-", "0", "0", ":", "3", "0">>
    /\ ret = -30 * 60000

(***************************************************************************)
(* C4: convert24HourTimeStringTo12Hour of hour h in 0..23 and minute m in  *)
(* 0..59 is 'HH:MM AM|PM': 12 AM for hour 0, 12 PM for hour 12, h AM for   *)
(* 1..11, h - 12 PM for 13..23, the hour and the minute two digits each,   *)
(* for a padded and for an unpadded input string.                          *)
(***************************************************************************)
C4_FormatTo12Hour ==
    fn = "convert24HourTimeStringTo12Hour" =>
        /\ ret = Expected12(arg.hours, arg.minutes)
        /\ Len(ret) = 8

\* the unpadded input '5:3' formatted as '05:03 AM'
C4_Witness ==
    /\ fn = "convert24HourTimeStringTo12Hour"
    /\ arg.str = <<"5", ":", "3">>
    /\ ret = <<"0", "5", ":", "0", "3", " ", "A", "M">>

(***************************************************************************)
(* C5: convert12HourTimeStringTo24Hour of 'HH:MM AM|PM' with hour 01..12   *)
(* and minute 00..59 is 'HH:MM' with hour 00 for 12 AM, the hour unchanged *)
(* for other AM hours, 12 for 12 PM and hour + 12 for other PM hours, the  *)
(* hour and the minute two digits each.                                    *)
(***************************************************************************)
C5_ParseFrom12Hour ==
    fn = "convert12HourTimeStringTo24Hour" =>
        /\ ret = Expected24(Hour24(arg.hours, arg.period), arg.minutes)
        /\ Len(ret) = 5

\* the PM branch that is given no digit count: '01:05 PM' is '13:05'
C5_Witness ==
    /\ fn = "convert12HourTimeStringTo24Hour"
    /\ arg.str = <<"0", "1", ":", "0", "5", " ", "P", "M">>
    /\ ret = <<"1", "3", ":", "0", "5">>

(***************************************************************************)
(* C6: parsing the formatted string of hour h and minute m gives the       *)
(* two-digit 24-hour string of (h, m), and formatting the parse of a       *)
(* string the formatter produced gives that string back.                   *)
(***************************************************************************)
C6_Inverse ==
    /\ fn = "parseOfFormat" => ret = Expected24(arg.hours, arg.minutes)
    /\ fn = "formatOfParse" => ret = arg

\* the formatter's '12:05 AM' parsed and formatted again
C6_Witness ==
    /\ fn = "formatOfParse"
    /\ arg = <<"1", "2", ":", "0", "5", " ", "A", "M">>
    /\ ret = arg

(***************************************************************************)
(* C7: with both role records set and a time input 'HH:MM', the output     *)
(* updateTimeOutput displays is the 12-hour string of (input minutes +     *)
(* target offset - origin offset) modulo 1440: origin '-05:00', target     *)
(* '+09:00' and input '09:00' display '11:00 PM'; origin '+01:00', target  *)
(* '-08:00' and input '02:00' display '05:00 PM'.                          *)
(***************************************************************************)
C7_UpdateTimeOutput ==
    fn = "updateTimeOutput" =>
        LET t == (arg.time + Delta(arg)) % 1440
        IN  /\ timeOutput = Expected12(t \div 60, t % 60)
            /\ (/\ get(CURRENT_TIMEZONES, ORIGIN).utc_offset
                       = <<"-", "0", "5", ":", "0", "0">>
                /\ get(CURRENT_TIMEZONES, TARGET).utc_offset
                       = <<"+", "0", "9", ":", "0", "0">>
                /\ timeInput = <<"0", "9", ":", "0", "0">>)
                   => timeOutput = <<"1", "1", ":", "0", "0", " ", "P", "M">>
            /\ (/\ get(CURRENT_TIMEZONES, ORIGIN).utc_offset
                       = <<"+", "0", "1", ":", "0", "0">>
                /\ get(CURRENT_TIMEZONES, TARGET).utc_offset
                       = <<"-", "0", "8", ":", "0", "0">>
                /\ timeInput = <<"0", "2", ":", "0", "0">>)
                   => timeOutput = <<"0", "5", ":", "0", "0", " ", "P", "M">>

\* the second scenario: a negative sum, displayed as '05:00 PM'
C7_Witness ==
    /\ fn = "updateTimeOutput"
    /\ get(CURRENT_TIMEZONES, ORIGIN).utc_offset = <<"+", "0", "1", ":", "0", "0">>
    /\ get(CURRENT_TIMEZONES, TARGET).utc_offset = <<"-", "0", "8", ":", "0", "0">>
    /\ timeInput = <<"0", "2", ":", "0", "0">>
    /\ timeOutput = <<"0", "5", ":", "0", "0", " ", "P", "M">>

(***************************************************************************)
(* The locale catalog.                                                     *)
(***************************************************************************)
\* loadTimezoneLocales handling '{area}' after the test of the area key
\* instead of before it: an area without locations gets no key
loadZone_skipBareArea(G, zone) ==
    LET zoneComponents == split(zone, "/")
        area == zoneComponents[1]
        G1 == IF ~has(G, area) THEN put(G, area, <<>>) ELSE G
    IN  IF Len(zoneComponents) = 1 THEN G
        ELSE LET location == zoneComponents[2]
                 hasRegion == Len(zoneComponents) = 3
                                  /\ Len(zoneComponents[3]) > 0
                 locations == get(G1, area)
                 locations1 == IF ~has(locations, location)
                               THEN put(locations, location, <<>>)
                               ELSE locations
                 locations2 ==
                     IF hasRegion
                     THEN put(locations1, location,
                              Append(get(locations1, location), zoneComponents[3]))
                     ELSE locations1
             IN  put(G1, area, locations2)

\* loadTimezoneLocales pushing a region only when the list does not hold it
loadZone_dedupRegions(G, zone) ==
    LET zoneComponents == split(zone, "/")
        area == zoneComponents[1]
        G1 == IF ~has(G, area) THEN put(G, area, <<>>) ELSE G
    IN  IF Len(zoneComponents) = 1 THEN G1
        ELSE LET location == zoneComponents[2]
                 hasRegion == Len(zoneComponents) = 3
                                  /\ Len(zoneComponents[3]) > 0
                 locations == get(G1, area)
                 locations1 == IF ~has(locations, location)
                               THEN put(locations, location, <<>>)
                               ELSE locations
                 locations2 ==
                     IF hasRegion
                            /\ ~includes(get(locations1, location), zoneComponents[3])
                     THEN put(locations1, location,
                              Append(get(locations1, location), zoneComponents[3]))
                     ELSE locations1
             IN  put(G1, area, locations2)

\* loadTimezoneLocales making the location's entry only for a zone with a
\* region
loadZone_locationOnlyWithRegion(G, zone) ==
    LET zoneComponents == split(zone, "/")
        area == zoneComponents[1]
        G1 == IF ~has(G, area) THEN put(G, area, <<>>) ELSE G
    IN  IF Len(zoneComponents) = 1 THEN G1
        ELSE LET location == zoneComponents[2]
                 hasRegion == Len(zoneComponents) = 3
                                  /\ Len(zoneComponents[3]) > 0
                 locations == get(G1, area)
                 locations1 == IF ~has(locations, location) /\ hasRegion
                               THEN put(locations, location, <<>>)
                               ELSE locations
                 locations2 ==
                     IF hasRegion
                     THEN put(locations1, location,
                              Append(get(locations1, location), zoneComponents[3]))
                     ELSE locations1
             IN  put(G1, area, locations2)

\* src/time-converter.js:470-486, the body of the loop of
\* loadTimezoneLocales: the catalog G after one zone. region is null for a
\* zone that has not three components, and if(region) is false for null and
\* for the empty string.
loadZone(G, zone) ==
    LET zoneComponents == split(zone, "/")
        area == zoneComponents[1]
        G1 == IF ~has(G, area) THEN put(G, area, <<>>) ELSE G
    IN  IF Len(zoneComponents) = 1 THEN G1
        ELSE LET location == zoneComponents[2]
                 hasRegion == Len(zoneComponents) = 3
                                  /\ Len(zoneComponents[3]) > 0
                 locations == get(G1, area)
                 locations1 == IF ~has(locations, location)
                               THEN put(locations, location, <<>>)
                               ELSE locations
                 locations2 ==
                     IF hasRegion
                     THEN put(locations1, location,
                              Append(get(locations1, location), zoneComponents[3]))
                     ELSE locations1
             IN  put(G1, area, locations2)

\* src/time-converter.js:466, the loop over the zones
RECURSIVE loadZones(_, _)
loadZones(G, zones) ==
    IF Len(zones) = 0 THEN G
    ELSE loadZones(loadZone(G, Head(zones)), Tail(zones))

\* the catalog after loadTimezoneLocales(zones)
loadTimezoneLocales(zones) == loadZones(GROUPED_TIMEZONES_LOCALES, zones)

\* whether element i of a destructured array is truthy: there is one, and
\* it is not the empty string
truthy(list, i) == i <= Len(list) /\ Len(list[i]) > 0

\* getSubComponentValuesOfLocale as in the earliest revision of the area
\* case: an area without locations is not told from an unknown one
getSubComponentValuesOfLocale_conflated(localeComponents) ==
    LET G == GROUPED_TIMEZONES_LOCALES
        area == localeComponents[1]
        location == localeComponents[2]
        region == localeComponents[3]
        areaDefined == has(G, area)
        locationDefined == /\ areaDefined
                           /\ Len(localeComponents) >= 2
                           /\ has(get(G, area), location)
    IN  IF truthy(localeComponents, 3)
        THEN IF locationDefined /\ includes(get(get(G, area), location), region)
             THEN array(<<>>) ELSE null
        ELSE IF truthy(localeComponents, 2)
        THEN IF locationDefined THEN array(get(get(G, area), location)) ELSE null
        ELSE IF areaDefined /\ Len(get(G, area)) > 0
             THEN array(keys(get(G, area))) ELSE null

\* getSubComponentValuesOfLocale with `?? []` in the location case: a
\* location that is not under the area is not told from a complete one
getSubComponentValuesOfLocale_unknownLocationComplete(localeComponents) ==
    LET G == GROUPED_TIMEZONES_LOCALES
        area == localeComponents[1]
        location == localeComponents[2]
        region == localeComponents[3]
        areaDefined == has(G, area)
        locationDefined == /\ areaDefined
                           /\ Len(localeComponents) >= 2
                           /\ has(get(G, area), location)
    IN  IF truthy(localeComponents, 3)
        THEN IF locationDefined /\ includes(get(get(G, area), location), region)
             THEN array(<<>>) ELSE null
        ELSE IF truthy(localeComponents, 2)
        THEN IF locationDefined THEN array(get(get(G, area), location))
             ELSE array(<<>>)
        ELSE IF areaDefined THEN array(keys(get(G, area))) ELSE null

\* getSubComponentValuesOfLocale with the region case of the earliest
\* revision: any region is complete
getSubComponentValuesOfLocale_anyRegion(localeComponents) ==
    LET G == GROUPED_TIMEZONES_LOCALES
        area == localeComponents[1]
        location == localeComponents[2]
        areaDefined == has(G, area)
        locationDefined == /\ areaDefined
                           /\ Len(localeComponents) >= 2
                           /\ has(get(G, area), location)
    IN  IF truthy(localeComponents, 3)
        THEN array(<<>>)
        ELSE IF truthy(localeComponents, 2)
        THEN IF locationDefined THEN array(get(get(G, area), location)) ELSE null
        ELSE IF areaDefined THEN array(keys(get(G, area))) ELSE null

\* src/time-converter.js:282. areaDefined: GROUPED_TIMEZONES_LOCALES[area]
\* is not undefined; locationDefined: neither is
\* GROUPED_TIMEZONES_LOCALES[area]?.[location].
getSubComponentValuesOfLocale(localeComponents) ==
    LET G == GROUPED_TIMEZONES_LOCALES
        area == localeComponents[1]
        location == localeComponents[2]
        region == localeComponents[3]
        areaDefined == has(G, area)
        locationDefined == /\ areaDefined
                           /\ Len(localeComponents) >= 2
                           /\ has(get(G, area), location)
    IN  IF truthy(localeComponents, 3)
        THEN IF locationDefined /\ includes(get(get(G, area), location), region)
             THEN array(<<>>) ELSE null
        ELSE IF truthy(localeComponents, 2)
        THEN IF locationDefined THEN array(get(get(G, area), location)) ELSE null
        ELSE IF areaDefined THEN array(keys(get(G, area))) ELSE null

(***************************************************************************)
(* The inputs of the catalog: zone lists of the service and selections of  *)
(* the dropdowns.                                                          *)
(***************************************************************************)
AreaNames == {<<"A">>, <<"B">>}

LocationNames == {<<"x">>, <<"y">>}

RegionNames == {<<"r">>, <<"s">>}

\* '{area}' or '{area}/{location}' or '{area}/{location}/{region}' (line 468)
Zone(components) ==
    [components |-> components, str |-> join(components, <<"/">>)]

Zones ==
    {Zone(c) : c \in {<<<<"A">>>>, <<<<"B">>>>,
                      <<<<"A">>, <<"x">>>>, <<<<"A">>, <<"y">>>>,
                      <<<<"B">>, <<"x">>>>,
                      <<<<"A">>, <<"x">>, <<"r">>>>,
                      <<<<"A">>, <<"x">>, <<"s">>>>,
                      <<<<"A">>, <<"y">>, <<"r">>>>}}

\* the zone lists: every sequence of at most MaxZones zones
ZoneLists == UNION {[1..n -> Zones] : n \in 0..MaxZones}

\* the strings of a zone list, as the service sends them
zoneStrings(zones) == [i \in 1..Len(zones) |-> zones[i].str]

\* the value of the blank option every dropdown starts with (line 388)
SELECT == <<"(", "s", "e", "l", "e", "c", "t", ")">>

\* the selected values of a role's dropdowns, down to the changed one
Locales ==
    LET a == AreaNames \cup {SELECT}
        l == LocationNames \cup {SELECT}
        r == RegionNames \cup {SELECT}
    IN  {<<x>> : x \in a} \cup (a \X l) \cup (a \X l \X r)

(***************************************************************************)
(* SpecCatalog: the catalog is built from a zone list, then queried.       *)
(***************************************************************************)
InitCatalog ==
    /\ fn = "none" /\ arg = <<>> /\ ret = <<>>
    /\ InitProgram

\* lines 512-513: the zone list arrives and is loaded
LoadTimezoneLocales ==
    /\ fn = "none"
    /\ \E zones \in ZoneLists :
        /\ fn' = "loadTimezoneLocales"
        /\ arg' = zones
        /\ ret' = undefined
        /\ GROUPED_TIMEZONES_LOCALES' = loadTimezoneLocales(zoneStrings(zones))
    /\ UNCHANGED pageVars

\* line 352: a selection is resolved against the built catalog
CallGetSubComponentValues ==
    /\ fn = "loadTimezoneLocales"
    /\ \E locale \in Locales :
        /\ fn' = "getSubComponentValuesOfLocale"
        /\ arg' = [zones |-> arg, locale |-> locale]
        /\ ret' = getSubComponentValuesOfLocale(locale)
    /\ UNCHANGED programVars

NextCatalog ==
    \/ LoadTimezoneLocales
    \/ CallGetSubComponentValues

SpecCatalog == InitCatalog /\ [][NextCatalog]_vars

\* the zone list the catalog of the current state was built from
loadedZones ==
    IF fn = "loadTimezoneLocales" THEN arg
    ELSE IF fn = "getSubComponentValuesOfLocale" THEN arg.zones
    ELSE <<>>

\* the keys of a map, as a set
keySet(obj) == {obj[i].key : i \in 1..Len(obj)}

\* the third components of the paths a/l/r of a zone list, in its order
RECURSIVE RegionsInOrder(_, _, _)
RegionsInOrder(zones, a, l) ==
    IF Len(zones) = 0 THEN <<>>
    ELSE LET c == Head(zones).components
         IN  (IF Len(c) = 3 /\ c[1] = a /\ c[2] = l THEN <<c[3]>> ELSE <<>>)
                 \o RegionsInOrder(Tail(zones), a, l)

(***************************************************************************)
(* C8: after loadTimezoneLocales every first component of a path of the    *)
(* zone list is a key of the catalog, with an empty mapping when no path   *)
(* gives that area a location, and every second component is a key under   *)
(* its area.                                                               *)
(***************************************************************************)
C8_Existence ==
    fn = "loadTimezoneLocales" =>
        \A i \in 1..Len(arg) :
            LET c == arg[i].components
                G == GROUPED_TIMEZONES_LOCALES
            IN  /\ c[1] \in keySet(G)
                /\ Len(c) >= 2 => c[2] \in keySet(get(G, c[1]))
                /\ (\A j \in 1..Len(arg) :
                        arg[j].components[1] = c[1] => Len(arg[j].components) = 1)
                    => get(G, c[1]) = <<>>

\* a list with an area that has no location and a location without region
C8_Witness ==
    /\ fn = "loadTimezoneLocales"
    /\ arg = <<Zone(<<<<"B">>>>), Zone(<<<<"A">>, <<"x">>>>)>>
    /\ get(GROUPED_TIMEZONES_LOCALES, <<"B">>) = <<>>
    /\ get(get(GROUPED_TIMEZONES_LOCALES, <<"A">>), <<"x">>) = <<>>

(***************************************************************************)
(* C9: the region list of area a and location l is the sequence of the     *)
(* third components of the paths a/l/r of the zone list, in the order of   *)
(* the list, a repeated path giving a repeated region.                     *)
(***************************************************************************)
C9_RegionsInOrder ==
    fn = "loadTimezoneLocales" =>
        \A a \in AreaNames, l \in LocationNames :
            LET G == GROUPED_TIMEZONES_LOCALES
            IN  /\ RegionsInOrder(arg, a, l) # <<>>
                    => a \in keySet(G) /\ l \in keySet(get(G, a))
                /\ (a \in keySet(G) /\ l \in keySet(get(G, a)))
                    => get(get(G, a), l) = RegionsInOrder(arg, a, l)

\* a repeated path: the regions of A/x are s, r, s
C9_Witness ==
    /\ fn = "loadTimezoneLocales"
    /\ arg = <<Zone(<<<<"A">>, <<"x">>, <<"s">>>>),
               Zone(<<<<"A">>, <<"x">>, <<"r">>>>),
               Zone(<<<<"A">>, <<"x">>, <<"s">>>>)>>
    /\ get(get(GROUPED_TIMEZONES_LOCALES, <<"A">>), <<"x">>)
           = <<<<"s">>, <<"r">>, <<"s">>>>

(***************************************************************************)
(* C10: getSubComponentValuesOfLocale([area]) is null when the area is not *)
(* in the catalog, an empty list (and not null) when the area is in the    *)
(* catalog without a location, and otherwise the location names under the  *)
(* area, each once.                                                        *)
(***************************************************************************)
C10_ResolveArea ==
    (fn = "getSubComponentValuesOfLocale" /\ Len(arg.locale) = 1) =>
        LET G == GROUPED_TIMEZONES_LOCALES
            area == arg.locale[1]
            known == \E i \in 1..Len(G) : G[i].key = area
            locations == UNION {keySet(G[i].val) : i \in {j \in 1..Len(G) : G[j].key = area}}
        IN  /\ ~known => ret = null
            /\ (known /\ locations = {}) => (ret = array(<<>>) /\ ret # null)
            /\ (known /\ locations # {}) =>
                   /\ ret # null
                   /\ {ret.values[i] : i \in 1..Len(ret.values)} = locations
                   /\ Len(ret.values) = Cardinality(locations)

\* an area that is in the catalog without a location resolves to an empty
\* list, next to an area with locations
C10_Witness ==
    /\ fn = "getSubComponentValuesOfLocale"
    /\ arg.locale = <<<<"B">>>>
    /\ keySet(GROUPED_TIMEZONES_LOCALES) = {<<"A">>, <<"B">>}
    /\ ret = array(<<>>)

\* whether the zone list has a path that starts with the components p
listed(zones, p) ==
    \E i \in 1..Len(zones) :
        /\ Len(zones[i].components) >= Len(p)
        /\ SubSeq(zones[i].components, 1, Len(p)) = p

(***************************************************************************)
(* C11: getSubComponentValuesOfLocale([area, location]) is null when no    *)
(* path of the zone list starts with the area, or none starts with the     *)
(* area and the location (the blank value '(select)' included); otherwise  *)
(* it is exactly the region list of the location, and an empty list is not *)
(* null.                                                                   *)
(***************************************************************************)
C11_ResolveLocation ==
    (fn = "getSubComponentValuesOfLocale" /\ Len(arg.locale) = 2) =>
        LET area == arg.locale[1]
            location == arg.locale[2]
        IN  /\ ~listed(arg.zones, <<area>>) => ret = null
            /\ ~listed(arg.zones, <<area, location>>) => ret = null
            /\ listed(arg.zones, <<area, location>>) =>
                   /\ ret # null
                   /\ ret = array(RegionsInOrder(arg.zones, area, location))

\* next to one another in one catalog: a location without regions, which
\* resolves to the empty list
C11_Witness ==
    /\ fn = "getSubComponentValuesOfLocale"
    /\ arg.zones = <<Zone(<<<<"A">>, <<"y">>>>),
                     Zone(<<<<"A">>, <<"x">>, <<"r">>>>)>>
    /\ arg.locale = <<<<"A">>, <<"y">>>>
    /\ ret = array(<<>>)

(***************************************************************************)
(* C12: getSubComponentValuesOfLocale([area, location, region]) is the     *)
(* empty list exactly when the zone list has the path                      *)
(* area/location/region, and null in every other case.                     *)
(***************************************************************************)
C12_ResolveRegion ==
    (fn = "getSubComponentValuesOfLocale" /\ Len(arg.locale) = 3) =>
        /\ ret = array(<<>>) <=> listed(arg.zones, arg.locale)
        /\ ret # array(<<>>) => ret = null

\* a region of another location of the same area is invalid
C12_Witness ==
    /\ fn = "getSubComponentValuesOfLocale"
    /\ arg.zones = <<Zone(<<<<"A">>, <<"y">>, <<"r">>>>),
                     Zone(<<<<"A">>, <<"x">>, <<"s">>>>)>>
    /\ arg.locale = <<<<"A">>, <<"x">>, <<"r">>>>
    /\ ret = null

(***************************************************************************)
(* The page: dropdowns, stored timezones, time input and output.           *)
(***************************************************************************)
AREA == <<"a", "r", "e", "a">>

LOCATION == <<"l", "o", "c", "a", "t", "i", "o", "n">>

REGION == <<"r", "e", "g", "i", "o", "n">>

\* String.prototype.replace with a one-character pattern: the first
\* occurrence only
replaceFirst(s, from, to) ==
    IF \A i \in 1..Len(s) : s[i] # from THEN s
    ELSE LET k == CHOOSE i \in 1..Len(s) :
                      s[i] = from /\ \A j \in 1..(i - 1) : s[j] # from
         IN  [i \in 1..Len(s) |-> IF i = k THEN to ELSE s[i]]

\* new Map(entries): a repeated key keeps its first place
RECURSIVE optionValueEntries(_, _)
optionValueEntries(localeArray, map) ==
    IF Len(localeArray) = 0 THEN map
    ELSE optionValueEntries(
             Tail(localeArray),
             put(map, Head(localeArray), replaceFirst(Head(localeArray), "_", " ")))

\* src/time-converter.js:174
getOptionValueMap(localeArray) == optionValueEntries(localeArray, <<>>)

\* src/time-converter.js:373. The select starts on its first option, the
\* blank one; forEach hands each entry's text and value to the option.
createDropdown(id, labelText, optionValueTexts) ==
    [id |-> id,
     label |-> labelText,
     value |-> SELECT,
     disabled |-> FALSE,
     options |-> <<[value |-> SELECT, text |-> SELECT]>>
                 \o [i \in 1..Len(optionValueTexts) |->
                        [value |-> optionValueTexts[i].key,
                         text |-> optionValueTexts[i].val]]]

\* src/time-converter.js:214: the containers after
\* setDisabledAttrOfDropdowns(container, disabledState)
setDisabledAttrOfDropdowns(cs, container, disabledState) ==
    [cs EXCEPT ![container].dropdowns =
        [i \in 1..Len(@) |-> [@[i] EXCEPT !.disabled = disabledState]]]

\* src/time-converter.js:340
getCategoryOfDropdown(dropdownDiv) == split(dropdownDiv.id, "-")[1]

\* src/time-converter.js:323: the values of the selects down to select d
getLocaleOfDropdown(dropdowns, d) == [i \in 1..d |-> dropdowns[i].value]

\* src/time-converter.js:267, on a container with n dropdown divs
getComponentTitleFromSuperComponentDiv(n) ==
    LET indexOfComponent == n + 1
    IN  IF indexOfComponent = 2 THEN LOCATION ELSE REGION

\* updateDropdowns with the two containers of line 307 exchanged
updateDropdowns_otherContainer(cs, origin, target, c, d, category, subComponentValues) ==
    LET removed == [cs EXCEPT ![c].dropdowns = SubSeq(@, 1, d)]
    IN  IF subComponentValues = null \/ Len(subComponentValues.values) = 0
        THEN removed
        ELSE LET subComponentTitle ==
                     getComponentTitleFromSuperComponentDiv(Len(removed[c].dropdowns))
                 dropdownContainer == IF category = ORIGIN THEN target ELSE origin
                 optionValueTexts == getOptionValueMap(subComponentValues.values)
                 subComponentDropdownId == category \o <<"-">> \o subComponentTitle
                 subComponentDropdownDiv ==
                     createDropdown(subComponentDropdownId,
                                    subComponentTitle \o <<":", " ">>,
                                    optionValueTexts)
             IN  [removed EXCEPT ![dropdownContainer].dropdowns =
                     Append(@, subComponentDropdownDiv)]

\* updateDropdowns without removeSiblingsUnderDropdown
updateDropdowns_siblingsKept(cs, origin, target, c, d, category, subComponentValues) ==
    LET removed == cs
    IN  IF subComponentValues = null \/ Len(subComponentValues.values) = 0
        THEN removed
        ELSE LET subComponentTitle ==
                     getComponentTitleFromSuperComponentDiv(Len(removed[c].dropdowns))
                 dropdownContainer == IF category = ORIGIN THEN origin ELSE target
                 optionValueTexts == getOptionValueMap(subComponentValues.values)
                 subComponentDropdownId == category \o <<"-">> \o subComponentTitle
                 subComponentDropdownDiv ==
                     createDropdown(subComponentDropdownId,
                                    subComponentTitle \o <<":", " ">>,
                                    optionValueTexts)
             IN  [removed EXCEPT ![dropdownContainer].dropdowns =
                     Append(@, subComponentDropdownDiv)]

\* src/time-converter.js:301: the containers after updateDropdowns, when
\* select d of container c has changed
updateDropdowns(cs, origin, target, c, d, category, subComponentValues) ==
    LET removed == [cs EXCEPT ![c].dropdowns = SubSeq(@, 1, d)]
    IN  IF subComponentValues = null \/ Len(subComponentValues.values) = 0
        THEN removed
        ELSE LET subComponentTitle ==
                     getComponentTitleFromSuperComponentDiv(Len(removed[c].dropdowns))
                 dropdownContainer == IF category = ORIGIN THEN origin ELSE target
                 optionValueTexts == getOptionValueMap(subComponentValues.values)
                 subComponentDropdownId == category \o <<"-">> \o subComponentTitle
                 subComponentDropdownDiv ==
                     createDropdown(subComponentDropdownId,
                                    subComponentTitle \o <<":", " ">>,
                                    optionValueTexts)
             IN  [removed EXCEPT ![dropdownContainer].dropdowns =
                     Append(@, subComponentDropdownDiv)]

\* src/time-converter.js:412
changeCategoryOfDescendents(cs, container, newCategory) ==
    [cs EXCEPT ![container].dropdowns =
        [i \in 1..Len(@) |->
            [@[i] EXCEPT !.id = newCategory \o <<"-">> \o split(@, "-")[2]]]]

\* clearStoredTimezone without its first statement: the record stays
clearStoredTimezone_recordKept(timezones, category) == timezones

\* src/time-converter.js:202, the stored records after
\* clearStoredTimezone(category)
clearStoredTimezone(timezones, category) == put(timezones, category, null)

\* String.prototype.startsWith with a one-character pattern
startsWith(s, c) == Len(s) > 0 /\ s[1] = c

(***************************************************************************)
(* The service and the user.                                               *)
(***************************************************************************)
\* the zone list the service sends the page
PageZones ==
    <<Zone(<<<<"B">>>>), Zone(<<<<"A">>, <<"y">>>>),
      Zone(<<<<"A">>, <<"x">>, <<"r">>>>)>>

\* the utc_offset the service reports for each of them
PageOffsets ==
    <<OffsetInput(<<"-">>, 5, 0, TRUE), OffsetInput(<<"+">>, 7, 0, TRUE),
      OffsetInput(<<"+">>, 1, 0, TRUE)>>

\* the offset of the zone GET /api/timezone/{path} is asked for
ServiceOffset(path) ==
    PageOffsets[CHOOSE i \in 1..Len(PageZones) : PageZones[i].str = path]

\* the JSON of a successful response (lines 3-18): the fields the page or
\* the properties below read
ServiceData(path) ==
    [timezone |-> path, utc_offset |-> ServiceOffset(path).str]

\* the times the user enters: 'HH:MM', or nothing
UserTimes == {<<>>, Time24Input(9, 0, TRUE).str}

(***************************************************************************)
(* Spec: the page's handlers. Every step is one handler run to its end.    *)
(* fn names the handler.                                                 *)
(***************************************************************************)
Init ==
    /\ fn = "none" /\ arg = <<>> /\ ret = <<>>
    /\ InitProgram

\* lines 512-514: the zone list arrives; loadTimezoneLocales, then
\* loadAreaDropdowns
ZoneListLoaded ==
    /\ startup = "pending"
    /\ LET G == loadTimezoneLocales(zoneStrings(PageZones))
           areas == getOptionValueMap(keys(G))
       IN  /\ GROUPED_TIMEZONES_LOCALES' = G
           /\ containers' =
                  [containers EXCEPT
                      ![originDropdownContainer].dropdowns =
                          Append(@, createDropdown(ORIGIN \o <<"-">> \o AREA,
                                                   AREA \o <<":", " ">>, areas)),
                      ![targetDropdownContainer].dropdowns =
                          Append(@, createDropdown(TARGET \o <<"-">> \o AREA,
                                                   AREA \o <<":", " ">>, areas))]
    /\ startup' = "loaded"
    /\ fn' = "loadAreaDropdowns" /\ arg' = <<>> /\ ret' = <<>>
    /\ UNCHANGED <<CURRENT_TIMEZONES, timeInput, timeOutput, utcOffsetText,
                   originDropdownContainer, targetDropdownContainer, fetches>>

\* line 515: the fetch of the zone list fails
ZoneListFailed ==
    /\ startup = "pending"
    /\ startup' = "failed"
    /\ fn' = "zoneListFailed" /\ arg' = <<>> /\ ret' = <<>>
    /\ UNCHANGED <<GROUPED_TIMEZONES_LOCALES, CURRENT_TIMEZONES, timeInput,
                   timeOutput, utcOffsetText, originDropdownContainer,
                   targetDropdownContainer, containers, fetches>>

\* updateSelectedTimezoneCallback with a lookup that gives an area it does
\* not find an empty entry in the catalog
SelectChanged_lookupAddsArea(c, d, v) ==
    /\ d \in 1..Len(containers[c].dropdowns)
    /\ ~containers[c].dropdowns[d].disabled
    /\ \E i \in 1..Len(containers[c].dropdowns[d].options) :
           containers[c].dropdowns[d].options[i].value = v
    /\ v # containers[c].dropdowns[d].value
    /\ LET selected == [containers EXCEPT ![c].dropdowns[d].value = v]
           category == getCategoryOfDropdown(selected[c].dropdowns[d])
           localeComponents == getLocaleOfDropdown(selected[c].dropdowns, d)
           subComponentValues == getSubComponentValuesOfLocale(localeComponents)
           updated == updateDropdowns(selected, originDropdownContainer,
                                      targetDropdownContainer, c, d, category,
                                      subComponentValues)
       IN  IF subComponentValues = null \/ Len(subComponentValues.values) # 0
           THEN \* clearStoredTimezone(category); updateTimeOutput()
                /\ containers' = updated
                /\ CURRENT_TIMEZONES' = clearStoredTimezone(CURRENT_TIMEZONES, category)
                /\ utcOffsetText' = put(utcOffsetText, category, UTC_NA)
                /\ timeOutput' = updateTimeOutput(CURRENT_TIMEZONES', timeInput)
                /\ fn' = "clearStoredTimezone"
                /\ UNCHANGED fetches
           ELSE \* updateStoredTimezones(dropdownContainer, localeComponents)
                /\ containers' = setDisabledAttrOfDropdowns(updated, c, TRUE)
                /\ fetches' = fetches \cup
                       {[container |-> c,
                         contentPanelId |-> updated[c].parent,
                         partialUrl |-> join(localeComponents, <<"/">>)]}
                /\ fn' = "updateStoredTimezones"
                /\ UNCHANGED <<CURRENT_TIMEZONES, utcOffsetText, timeOutput>>
    /\ arg' = <<>> /\ ret' = <<>>
    /\ LET area == IF d = 1 THEN v ELSE containers[c].dropdowns[1].value
       IN  GROUPED_TIMEZONES_LOCALES' =
               IF has(GROUPED_TIMEZONES_LOCALES, area) THEN GROUPED_TIMEZONES_LOCALES
               ELSE put(GROUPED_TIMEZONES_LOCALES, area, <<>>)
    /\ UNCHANGED <<timeInput, originDropdownContainer, targetDropdownContainer,
                   startup>>

\* updateSelectedTimezoneCallback with the test of line 353 reduced to
\* `subComponentValues === null`: a list of choices starts a fetch too
SelectChanged_fetchUnlessNull(c, d, v) ==
    /\ d \in 1..Len(containers[c].dropdowns)
    /\ ~containers[c].dropdowns[d].disabled
    /\ \E i \in 1..Len(containers[c].dropdowns[d].options) :
           containers[c].dropdowns[d].options[i].value = v
    /\ v # containers[c].dropdowns[d].value
    /\ LET selected == [containers EXCEPT ![c].dropdowns[d].value = v]
           category == getCategoryOfDropdown(selected[c].dropdowns[d])
           localeComponents == getLocaleOfDropdown(selected[c].dropdowns, d)
           subComponentValues == getSubComponentValuesOfLocale(localeComponents)
           updated == updateDropdowns(selected, originDropdownContainer,
                                      targetDropdownContainer, c, d, category,
                                      subComponentValues)
       IN  IF subComponentValues = null
           THEN \* clearStoredTimezone(category); updateTimeOutput()
                /\ containers' = updated
                /\ CURRENT_TIMEZONES' = clearStoredTimezone(CURRENT_TIMEZONES, category)
                /\ utcOffsetText' = put(utcOffsetText, category, UTC_NA)
                /\ timeOutput' = updateTimeOutput(CURRENT_TIMEZONES', timeInput)
                /\ fn' = "clearStoredTimezone"
                /\ UNCHANGED fetches
           ELSE \* updateStoredTimezones(dropdownContainer, localeComponents)
                /\ containers' = setDisabledAttrOfDropdowns(updated, c, TRUE)
                /\ fetches' = fetches \cup
                       {[container |-> c,
                         contentPanelId |-> updated[c].parent,
                         partialUrl |-> join(localeComponents, <<"/">>)]}
                /\ fn' = "updateStoredTimezones"
                /\ UNCHANGED <<CURRENT_TIMEZONES, utcOffsetText, timeOutput>>
    /\ arg' = <<>> /\ ret' = <<>>
    /\ UNCHANGED <<GROUPED_TIMEZONES_LOCALES, timeInput, originDropdownContainer,
                   targetDropdownContainer, startup>>

\* src/time-converter.js:349, updateSelectedTimezoneCallback: the user
\* changes enabled select d of container c to another of its options
SelectChanged(c, d, v) ==
    /\ d \in 1..Len(containers[c].dropdowns)
    /\ ~containers[c].dropdowns[d].disabled
    /\ \E i \in 1..Len(containers[c].dropdowns[d].options) :
           containers[c].dropdowns[d].options[i].value = v
    /\ v # containers[c].dropdowns[d].value
    /\ LET selected == [containers EXCEPT ![c].dropdowns[d].value = v]
           category == getCategoryOfDropdown(selected[c].dropdowns[d])
           localeComponents == getLocaleOfDropdown(selected[c].dropdowns, d)
           subComponentValues == getSubComponentValuesOfLocale(localeComponents)
           updated == updateDropdowns(selected, originDropdownContainer,
                                      targetDropdownContainer, c, d, category,
                                      subComponentValues)
       IN  IF subComponentValues = null \/ Len(subComponentValues.values) # 0
           THEN \* clearStoredTimezone(category); updateTimeOutput()
                /\ containers' = updated
                /\ CURRENT_TIMEZONES' = clearStoredTimezone(CURRENT_TIMEZONES, category)
                /\ utcOffsetText' = put(utcOffsetText, category, UTC_NA)
                /\ timeOutput' = updateTimeOutput(CURRENT_TIMEZONES', timeInput)
                /\ fn' = "clearStoredTimezone"
                /\ UNCHANGED fetches
           ELSE \* updateStoredTimezones(dropdownContainer, localeComponents)
                /\ containers' = setDisabledAttrOfDropdowns(updated, c, TRUE)
                /\ fetches' = fetches \cup
                       {[container |-> c,
                         contentPanelId |-> updated[c].parent,
                         partialUrl |-> join(localeComponents, <<"/">>)]}
                /\ fn' = "updateStoredTimezones"
                /\ UNCHANGED <<CURRENT_TIMEZONES, utcOffsetText, timeOutput>>
    /\ arg' = <<>> /\ ret' = <<>>
    /\ UNCHANGED <<GROUPED_TIMEZONES_LOCALES, timeInput, originDropdownContainer,
                   targetDropdownContainer, startup>>

\* the fetch resolving with the panel looked up when the data arrives, and
\* not when the request was made
FetchResolved_currentPanel(f) ==
    /\ f \in fetches
    /\ LET data == ServiceData(f.partialUrl)
           panel == containers[f.container].parent
       IN  /\ CURRENT_TIMEZONES' = put(CURRENT_TIMEZONES, panel, data)
           /\ utcOffsetText' = put(utcOffsetText, panel,
                                   UTC_PREFIX \o data.utc_offset)
    /\ containers' = setDisabledAttrOfDropdowns(containers, f.container, FALSE)
    /\ timeOutput' = updateTimeOutput(CURRENT_TIMEZONES', timeInput)
    /\ fetches' = fetches \ {f}
    /\ fn' = "fetchResolved" /\ arg' = <<>> /\ ret' = <<>>
    /\ UNCHANGED <<GROUPED_TIMEZONES_LOCALES, timeInput, originDropdownContainer,
                   targetDropdownContainer, startup>>

\* the fetch resolving without the second then-callback: the output is not
\* recomputed
FetchResolved_outputKept(f) ==
    /\ f \in fetches
    /\ LET data == ServiceData(f.partialUrl)
       IN  /\ CURRENT_TIMEZONES' = put(CURRENT_TIMEZONES, f.contentPanelId, data)
           /\ utcOffsetText' = put(utcOffsetText, f.contentPanelId,
                                   UTC_PREFIX \o data.utc_offset)
    /\ containers' = setDisabledAttrOfDropdowns(containers, f.container, FALSE)
    /\ fetches' = fetches \ {f}
    /\ fn' = "fetchResolved" /\ arg' = <<>> /\ ret' = <<>>
    /\ UNCHANGED <<GROUPED_TIMEZONES_LOCALES, timeInput, timeOutput,
                   originDropdownContainer, targetDropdownContainer, startup>>

\* lines 234-240: the fetch f resolves with the data of its zone
FetchResolved(f) ==
    /\ f \in fetches
    /\ LET data == ServiceData(f.partialUrl)
       IN  /\ CURRENT_TIMEZONES' = put(CURRENT_TIMEZONES, f.contentPanelId, data)
           /\ utcOffsetText' = put(utcOffsetText, f.contentPanelId,
                                   UTC_PREFIX \o data.utc_offset)
    /\ containers' = setDisabledAttrOfDropdowns(containers, f.container, FALSE)
    /\ timeOutput' = updateTimeOutput(CURRENT_TIMEZONES', timeInput)
    /\ fetches' = fetches \ {f}
    /\ fn' = "fetchResolved" /\ arg' = <<>> /\ ret' = <<>>
    /\ UNCHANGED <<GROUPED_TIMEZONES_LOCALES, timeInput, originDropdownContainer,
                   targetDropdownContainer, startup>>

\* lines 241-244: the fetch f fails (no response, or a status that is not ok)
FetchFailed(f) ==
    /\ f \in fetches
    /\ containers' = setDisabledAttrOfDropdowns(containers, f.container, FALSE)
    /\ fetches' = fetches \ {f}
    /\ fn' = "fetchFailed" /\ arg' = <<>> /\ ret' = <<>>
    /\ UNCHANGED <<GROUPED_TIMEZONES_LOCALES, CURRENT_TIMEZONES, timeInput,
                   timeOutput, utcOffsetText, originDropdownContainer,
                   targetDropdownContainer, startup>>

\* line 510: the user changes the time input; updateTimeOutput
TimeInputChanged(v) ==
    /\ v # timeInput
    /\ timeInput' = v
    /\ timeOutput' = updateTimeOutput(CURRENT_TIMEZONES, v)
    /\ fn' = "timeInputChanged" /\ arg' = <<>> /\ ret' = <<>>
    /\ UNCHANGED <<GROUPED_TIMEZONES_LOCALES, CURRENT_TIMEZONES, utcOffsetText,
                   originDropdownContainer, targetDropdownContainer, containers,
                   startup, fetches>>

\* lines 444-450 with `timeInput.value = temp`: the 12-hour text is not
\* converted
swappedTimeInput_unconverted(input, output) ==
    IF ~startsWith(output, "-") /\ Len(input) > 0 THEN output ELSE <<>>

\* src/time-converter.js:444-450: the time input after a swap
swappedTimeInput(input, output) ==
    IF ~startsWith(output, "-") /\ Len(input) > 0
    THEN convert12HourTimeStringTo24Hour(output)
    ELSE <<>>

\* src/time-converter.js:444-450: the output after a swap
swappedTimeOutput(input, output) ==
    IF ~startsWith(output, "-") /\ Len(input) > 0
    THEN convert24HourTimeStringTo12Hour(input)
    ELSE PLACEHOLDER

\* src/time-converter.js:451-455: the labels, or the records, of the two
\* roles exchanged
swappedRoles(obj) ==
    put(put(obj, TARGET, get(obj, ORIGIN)), ORIGIN, get(obj, TARGET))

\* src/time-converter.js:434-440: the containers after the two variables
\* are exchanged, the dropdowns renamed and each container put in the panel
\* of its new role; origin and target are the variables before the swap
swappedContainers(cs, origin, target) ==
    LET targetParent == cs[target].parent
        originParent == cs[origin].parent
        newOrigin == target
        newTarget == origin
        renamed == changeCategoryOfDescendents(
                       changeCategoryOfDescendents(cs, newTarget, TARGET),
                       newOrigin, ORIGIN)
    IN  [renamed EXCEPT ![newTarget].parent = targetParent,
                        ![newOrigin].parent = originParent]

\* swapOriginAndTargetTimezones without its last statement: the records stay
\* with their roles
SwapOriginAndTargetTimezones_recordsKept ==
    LET targetParent == containers[targetDropdownContainer].parent
        originParent == containers[originDropdownContainer].parent
        newOrigin == targetDropdownContainer
        newTarget == originDropdownContainer
        renamed == changeCategoryOfDescendents(
                       changeCategoryOfDescendents(containers, newTarget, TARGET),
                       newOrigin, ORIGIN)
    IN  /\ originDropdownContainer' = newOrigin
        /\ targetDropdownContainer' = newTarget
        /\ containers' = [renamed EXCEPT ![newTarget].parent = targetParent,
                                         ![newOrigin].parent = originParent]
        /\ IF ~startsWith(timeOutput, "-") /\ Len(timeInput) > 0
           THEN /\ timeOutput' = convert24HourTimeStringTo12Hour(timeInput)
                /\ timeInput' = convert12HourTimeStringTo24Hour(timeOutput)
           ELSE /\ timeOutput' = PLACEHOLDER
                /\ timeInput' = <<>>
        /\ utcOffsetText' = put(put(utcOffsetText, TARGET, get(utcOffsetText, ORIGIN)),
                                ORIGIN, get(utcOffsetText, TARGET))
        /\ fn' = "swapOriginAndTargetTimezones" /\ arg' = <<>> /\ ret' = <<>>
        /\ UNCHANGED <<GROUPED_TIMEZONES_LOCALES, CURRENT_TIMEZONES, startup, fetches>>

\* swapOriginAndTargetTimezones without the exchange of the two labels
\* (lines 451-453)
SwapOriginAndTargetTimezones_labelsKept ==
    LET targetParent == containers[targetDropdownContainer].parent
        originParent == containers[originDropdownContainer].parent
        newOrigin == targetDropdownContainer
        newTarget == originDropdownContainer
        renamed == changeCategoryOfDescendents(
                       changeCategoryOfDescendents(containers, newTarget, TARGET),
                       newOrigin, ORIGIN)
    IN  /\ originDropdownContainer' = newOrigin
        /\ targetDropdownContainer' = newTarget
        /\ containers' = [renamed EXCEPT ![newTarget].parent = targetParent,
                                         ![newOrigin].parent = originParent]
        /\ IF ~startsWith(timeOutput, "-") /\ Len(timeInput) > 0
           THEN /\ timeOutput' = convert24HourTimeStringTo12Hour(timeInput)
                /\ timeInput' = convert12HourTimeStringTo24Hour(timeOutput)
           ELSE /\ timeOutput' = PLACEHOLDER
                /\ timeInput' = <<>>
        /\ CURRENT_TIMEZONES' =
               put(put(CURRENT_TIMEZONES, ORIGIN, get(CURRENT_TIMEZONES, TARGET)),
                   TARGET, get(CURRENT_TIMEZONES, ORIGIN))
        /\ fn' = "swapOriginAndTargetTimezones" /\ arg' = <<>> /\ ret' = <<>>
        /\ UNCHANGED <<GROUPED_TIMEZONES_LOCALES, utcOffsetText, startup, fetches>>

\* src/time-converter.js:432, swapOriginAndTargetTimezones
SwapOriginAndTargetTimezones ==
    /\ originDropdownContainer' = targetDropdownContainer
    /\ targetDropdownContainer' = originDropdownContainer
    /\ containers' = swappedContainers(containers, originDropdownContainer,
                                       targetDropdownContainer)
    /\ timeOutput' = swappedTimeOutput(timeInput, timeOutput)
    /\ timeInput' = swappedTimeInput(timeInput, timeOutput)
    /\ utcOffsetText' = swappedRoles(utcOffsetText)
    /\ CURRENT_TIMEZONES' = swappedRoles(CURRENT_TIMEZONES)
    /\ fn' = "swapOriginAndTargetTimezones" /\ arg' = <<>> /\ ret' = <<>>
    /\ UNCHANGED <<GROUPED_TIMEZONES_LOCALES, startup, fetches>>

\* the values a select can take
OptionValues == {SELECT} \cup AreaNames \cup LocationNames \cup RegionNames

\* the fetches that can be in flight
Fetches ==
    [container : 1..2, contentPanelId : {ORIGIN, TARGET},
     partialUrl : {PageZones[i].str : i \in 1..Len(PageZones)}]

Next ==
    \/ ZoneListLoaded
    \/ ZoneListFailed
    \/ \E c \in 1..2, d \in 1..3, v \in OptionValues : SelectChanged(c, d, v)
    \/ \E f \in Fetches : FetchResolved(f)
    \/ \E f \in Fetches : FetchFailed(f)
    \/ \E v \in UserTimes : TimeInputChanged(v)
    \/ SwapOriginAndTargetTimezones

Spec == Init /\ [][Next]_vars

(***************************************************************************)
(* What the page's texts are compared with.                                *)
(***************************************************************************)
\* the number two digit characters name
TwoDigitValue(a, b) == DigitVal(a) * 10 + DigitVal(b)

\* whether s is a string 'HH:MM' of a time of the day
IsTime24(s) ==
    /\ Len(s) = 5 /\ s[3] = ":"
    /\ \A i \in {1, 2, 4, 5} : IsDigit(s[i])
    /\ TwoDigitValue(s[1], s[2]) \in 0..23
    /\ TwoDigitValue(s[4], s[5]) \in 0..59

\* the minute of the day a string 'HH:MM' names
MinuteOf24(s) == TwoDigitValue(s[1], s[2]) * 60 + TwoDigitValue(s[4], s[5])

\* whether s is a string 'HH:MM AM' or 'HH:MM PM' of a time of the day
IsTime12(s) ==
    /\ Len(s) = 8 /\ s[3] = ":" /\ s[6] = " " /\ s[7] \in {"A", "P"} /\ s[8] = "M"
    /\ \A i \in {1, 2, 4, 5} : IsDigit(s[i])
    /\ TwoDigitValue(s[1], s[2]) \in 1..12
    /\ TwoDigitValue(s[4], s[5]) \in 0..59

\* the minute of the day a string 'HH:MM AM|PM' names
MinuteOf12(s) ==
    Hour24(TwoDigitValue(s[1], s[2]), <<s[7], s[8]>>) * 60
        + TwoDigitValue(s[4], s[5])

\* the offset in minutes of a record of the service
RecordOffsetValue(record) ==
    OffsetValue(PageOffsets[CHOOSE i \in 1..Len(PageOffsets) :
                                PageOffsets[i].str = record.utc_offset])

\* the record of a role
Record(timezones, role) == get(timezones, role)

\* the 12-hour text of the time input converted under the two records
ExpectedOutput(timezones, input) ==
    LET t == (MinuteOf24(input) + RecordOffsetValue(Record(timezones, TARGET))
                  - RecordOffsetValue(Record(timezones, ORIGIN))) % 1440
    IN  Expected12(t \div 60, t % 60)

(***************************************************************************)
(* C13: a swap made when both roles have a record and the output shows a   *)
(* time exchanges the two records, makes the 24-hour form of the old       *)
(* output the input and the 12-hour form of the old input the output; the  *)
(* new output is the conversion of the new input under the exchanged       *)
(* records, that is the time of day that was the input before the swap.    *)
(***************************************************************************)
C13_SwapStep ==
    (/\ fn' = "swapOriginAndTargetTimezones"
     /\ Record(CURRENT_TIMEZONES, ORIGIN) # null
     /\ Record(CURRENT_TIMEZONES, TARGET) # null
     /\ timeOutput # PLACEHOLDER) =>
        /\ IsTime24(timeInput) /\ IsTime12(timeOutput)
        /\ Record(CURRENT_TIMEZONES', ORIGIN) = Record(CURRENT_TIMEZONES, TARGET)
        /\ Record(CURRENT_TIMEZONES', TARGET) = Record(CURRENT_TIMEZONES, ORIGIN)
        /\ timeInput' = LET n == MinuteOf12(timeOutput)
                        IN  Expected24(n \div 60, n % 60)
        /\ timeOutput' = LET n == MinuteOf24(timeInput)
                         IN  Expected12(n \div 60, n % 60)
        /\ timeOutput' = ExpectedOutput(CURRENT_TIMEZONES', timeInput')
        /\ timeOutput' = updateTimeOutput(CURRENT_TIMEZONES', timeInput')

C13_Swap == [][C13_SwapStep]_vars

\* after a swap of two records with different offsets: the output shows a
\* time that is not the input's
C13_Witness ==
    /\ fn = "swapOriginAndTargetTimezones"
    /\ Record(CURRENT_TIMEZONES, ORIGIN) # null
    /\ Record(CURRENT_TIMEZONES, TARGET) # null
    /\ Record(CURRENT_TIMEZONES, ORIGIN) # Record(CURRENT_TIMEZONES, TARGET)
    /\ timeOutput # PLACEHOLDER
    /\ MinuteOf12(timeOutput) # MinuteOf24(timeInput)

(***************************************************************************)
(* C14: when a fetch of a role's record fails, the role has no record      *)
(* afterwards, whatever it held before the fetch.                          *)
(***************************************************************************)
C14_FailedFetchStep ==
    fn' = "fetchFailed" =>
        \A f \in fetches \ fetches' :
            Record(CURRENT_TIMEZONES', f.contentPanelId) = null

C14_FailedFetchLeavesUnset == [][C14_FailedFetchStep]_vars

\* the values selected in the dropdowns of container c, down to dropdown d
SelectedPath(cs, c, d) == [i \in 1..d |-> cs[c].dropdowns[i].value]

(***************************************************************************)
(* C15: when the selection of a role is changed to a path that is not the  *)
(* start of any listed path, the callback leaves the role without a        *)
(* record, with the label 'UTC: N/A', the output with the placeholder, and *)
(* issues no fetch.                                                        *)
(***************************************************************************)
C15_InvalidSelectionStep ==
    \A c \in 1..2, d \in 1..3, v \in OptionValues :
        (/\ SelectChanged(c, d, v)
         /\ ~listed(PageZones, SelectedPath(containers', c, d))) =>
            LET role == containers[c].parent
            IN  /\ Record(CURRENT_TIMEZONES', role) = null
                /\ get(utcOffsetText', role) = UTC_NA
                /\ timeOutput' = PLACEHOLDER
                /\ fetches' = fetches

C15_InvalidSelection == [][C15_InvalidSelectionStep]_vars

\* the area of the origin was set back to the blank value while the target
\* has a record and a time is entered
C15_Witness ==
    /\ fn = "clearStoredTimezone"
    /\ Len(containers[originDropdownContainer].dropdowns) = 1
    /\ containers[originDropdownContainer].dropdowns[1].value = SELECT
    /\ Record(CURRENT_TIMEZONES, TARGET) # null
    /\ timeInput # <<>>
    /\ timeOutput = PLACEHOLDER

\* the dropdown container that is in the panel of a role
ContainerOf(cs, role) == CHOOSE c \in 1..2 : cs[c].parent = role

\* the utc_offset the service reports for a path
OffsetOfPath(path) ==
    PageOffsets[CHOOSE i \in 1..Len(PageZones) : PageZones[i].str = path].str

(***************************************************************************)
(* C16: while a fetch for a role is outstanding every dropdown of that     *)
(* role is disabled, and when no fetch is outstanding no dropdown is       *)
(* disabled, whatever the order of selections, swaps and completions.      *)
(***************************************************************************)
C16_DisabledWhileOutstanding ==
    /\ \A f \in fetches :
           LET dropdowns == containers[ContainerOf(containers, f.contentPanelId)].dropdowns
           IN  \A i \in 1..Len(dropdowns) : dropdowns[i].disabled
    /\ fetches = {} =>
           \A c \in 1..2 : \A i \in 1..Len(containers[c].dropdowns) :
               ~containers[c].dropdowns[i].disabled

(***************************************************************************)
(* C17: a fetch stays outstanding until it resolves or fails, whatever     *)
(* happens to the selection of its role meanwhile (a swap, for one); when  *)
(* it resolves, the record of the role it was issued for is the data of    *)
(* the fetched path and the role's label its offset.                       *)
(***************************************************************************)
C17_NoCancellationStep ==
    /\ fetches \ fetches' # {} => fn' \in {"fetchResolved", "fetchFailed"}
    /\ fn' = "fetchResolved" =>
           \A f \in fetches \ fetches' :
               /\ Record(CURRENT_TIMEZONES', f.contentPanelId)
                      = [timezone |-> f.partialUrl,
                         utc_offset |-> OffsetOfPath(f.partialUrl)]
               /\ get(utcOffsetText', f.contentPanelId)
                      = <<"U", "T", "C", ":", " ">> \o OffsetOfPath(f.partialUrl)

C17_NoCancellation == [][C17_NoCancellationStep]_vars

\* a fetch issued for the origin resolved after a swap: the origin has the
\* record of the path that the target's dropdowns show
C17_Witness ==
    /\ fn = "fetchResolved"
    /\ Record(CURRENT_TIMEZONES, ORIGIN) # null
    /\ LET shown(role) ==
               LET c == ContainerOf(containers, role)
               IN  join(SelectedPath(containers, c, Len(containers[c].dropdowns)),
                        <<"/">>)
       IN  /\ Record(CURRENT_TIMEZONES, ORIGIN).timezone # shown(ORIGIN)
           /\ Record(CURRENT_TIMEZONES, ORIGIN).timezone = shown(TARGET)
           /\ Record(CURRENT_TIMEZONES, TARGET) = null

\* the catalog loadTimezoneLocales builds from the zone list of the service
PageCatalog == loadZones(<<>>, zoneStrings(PageZones))

(***************************************************************************)
(* C18: once the zone list has been loaded (or its fetch has failed), no   *)
(* event changes the catalog: selections, fetch completions, changes of    *)
(* the time input and swaps leave every key and every region list as it    *)
(* was.                                                                    *)
(***************************************************************************)
C18_CatalogStep ==
    startup # "pending" => GROUPED_TIMEZONES_LOCALES' = GROUPED_TIMEZONES_LOCALES

C18_CatalogImmutable == [][C18_CatalogStep]_vars

\* after selections in both roles, two resolved fetches and a swap the
\* catalog is the one that was built
C18_Witness ==
    /\ fn = "swapOriginAndTargetTimezones"
    /\ Record(CURRENT_TIMEZONES, ORIGIN) # null
    /\ Record(CURRENT_TIMEZONES, TARGET) # null
    /\ timeInput # <<>>
    /\ GROUPED_TIMEZONES_LOCALES = PageCatalog
    /\ keySet(GROUPED_TIMEZONES_LOCALES) = {<<"A">>, <<"B">>}

(***************************************************************************)
(* C19: in every reachable state the output is the placeholder exactly     *)
(* when the origin has no record, the target has no record or the time     *)
(* input is empty; otherwise it is the 12-hour text of the time input      *)
(* moved by the target's offset minus the origin's.                        *)
(***************************************************************************)
C19_Output ==
    LET incomplete == \/ Record(CURRENT_TIMEZONES, ORIGIN) = null
                      \/ Record(CURRENT_TIMEZONES, TARGET) = null
                      \/ timeInput = <<>>
    IN  /\ timeOutput = PLACEHOLDER <=> incomplete
        /\ ~incomplete =>
               /\ IsTime24(timeInput)
               /\ timeOutput = ExpectedOutput(CURRENT_TIMEZONES, timeInput)

\* a fetch completed the second record while a time was entered: the
\* output shows another time of the day than the input
C19_Witness ==
    /\ fn = "fetchResolved"
    /\ Record(CURRENT_TIMEZONES, ORIGIN) # null
    /\ Record(CURRENT_TIMEZONES, TARGET) # null
    /\ timeInput # <<>>
    /\ IsTime12(timeOutput)
    /\ MinuteOf12(timeOutput) # MinuteOf24(timeInput)

\* the other of the two roles
OtherRole(role) == IF role = ORIGIN THEN TARGET ELSE ORIGIN

\* the values selected in all dropdowns of the container of a role
Selection(cs, role) ==
    LET c == ContainerOf(cs, role)
    IN  SelectedPath(cs, c, Len(cs[c].dropdowns))

\* record, label and selection of a role are the same before and after
RoleUntouched(role) ==
    /\ Record(CURRENT_TIMEZONES', role) = Record(CURRENT_TIMEZONES, role)
    /\ get(utcOffsetText', role) = get(utcOffsetText, role)
    /\ Selection(containers', role) = Selection(containers, role)

(***************************************************************************)
(* C20: a selection change in the dropdowns of one role leaves the record, *)
(* the label and the selection of the other role as they were, and so do   *)
(* the resolution and the failure of a fetch issued for one role, also     *)
(* when swaps come between.                                                *)
(***************************************************************************)
C20_RolesApartStep ==
    /\ \A c \in 1..2, d \in 1..3, v \in OptionValues :
           SelectChanged(c, d, v) => RoleUntouched(OtherRole(containers[c].parent))
    /\ \A f \in fetches \ fetches' :
           fn' \in {"fetchResolved", "fetchFailed"}
               => RoleUntouched(OtherRole(f.contentPanelId))

C20_RolesApart == [][C20_RolesApartStep]_vars

\* a fetch issued for the origin resolved after a swap, next to a target
\* that has its record and a selection of two dropdowns
C20_Witness ==
    /\ fn = "fetchResolved"
    /\ Record(CURRENT_TIMEZONES, ORIGIN) # null
    /\ Record(CURRENT_TIMEZONES, TARGET) # null
    /\ Record(CURRENT_TIMEZONES, ORIGIN).timezone
           # join(Selection(containers, ORIGIN), <<"/">>)
    /\ Len(Selection(containers, TARGET)) >= 2

\* whether a path is a listed zone that no listed zone continues
Complete(zones, p) ==
    /\ \E i \in 1..Len(zones) : zones[i].components = p
    /\ \A i \in 1..Len(zones) :
           Len(zones[i].components) > Len(p)
               => SubSeq(zones[i].components, 1, Len(p)) # p

\* whether a path is the start of a longer listed zone
HasChoices(zones, p) ==
    \E i \in 1..Len(zones) :
        /\ Len(zones[i].components) > Len(p)
        /\ SubSeq(zones[i].components, 1, Len(p)) = p

(***************************************************************************)
(* C21: a selection change starts a fetch exactly when the path selected   *)
(* down to the changed dropdown is complete, and the fetch is then the     *)
(* one for that path joined with '/', issued for the role of the dropdown; *)
(* when the path has further choices the role's record becomes null and    *)
(* no fetch is started.                                                    *)
(***************************************************************************)
C21_FetchIffCompleteStep ==
    \A c \in 1..2, d \in 1..3, v \in OptionValues :
        SelectChanged(c, d, v) =>
            LET path == SelectedPath(containers', c, d)
                role == containers[c].parent
            IN  /\ fetches \subseteq fetches'
                /\ fetches' # fetches <=> Complete(PageZones, path)
                /\ fetches' # fetches
                       <=> getSubComponentValuesOfLocale(path) = array(<<>>)
                /\ Complete(PageZones, path) =>
                       \A f \in fetches' \ fetches :
                           /\ f.partialUrl = join(path, <<"/">>)
                           /\ f.contentPanelId = role
                /\ Cardinality(fetches' \ fetches) <= 1
                /\ HasChoices(PageZones, path) =>
                       /\ Record(CURRENT_TIMEZONES', role) = null
                       /\ fetches' = fetches

C21_FetchIffComplete == [][C21_FetchIffCompleteStep]_vars

\* both cases in one state: the origin, which had a record, was set to an
\* area with locations and has no record now, while the target's fetch of a
\* path of two components is outstanding
C21_Witness ==
    /\ fn = "clearStoredTimezone"
    /\ Selection(containers, ORIGIN) = <<<<"A">>, SELECT>>
    /\ Record(CURRENT_TIMEZONES, ORIGIN) = null
    /\ \E f \in fetches :
           /\ f.contentPanelId = TARGET
           /\ f.partialUrl = <<"A", "/", "y">>

\* the components that continue path p in the listed zones, each once, in
\* the order in which the zone list first has them
RECURSIVE NextChoices(_, _)
NextChoices(zones, p) ==
    IF Len(zones) = 0 THEN <<>>
    ELSE LET before == NextChoices(SubSeq(zones, 1, Len(zones) - 1), p)
             z == zones[Len(zones)].components
         IN  IF /\ Len(z) > Len(p)
                /\ SubSeq(z, 1, Len(p)) = p
                /\ \A i \in 1..Len(before) : before[i] # z[Len(p) + 1]
             THEN Append(before, z[Len(p) + 1])
             ELSE before

(***************************************************************************)
(* C22: after a selection change at dropdown d of a role the role has its  *)
(* dropdowns 1..d as they were (d with the new value) and nothing below    *)
(* them, except one new dropdown d+1 exactly when the selected path has    *)
(* further choices; that dropdown shows the blank value and its options    *)
(* are '(select)' followed by those choices. No role ever has more than    *)
(* three dropdowns.                                                        *)
(***************************************************************************)
C22_CascadeStep ==
    /\ \A c \in 1..2 : Len(containers'[c].dropdowns) <= 3
    /\ \A c \in 1..2, d \in 1..3, v \in OptionValues :
           SelectChanged(c, d, v) =>
               LET path == SelectedPath(containers', c, d)
                   choices == NextChoices(PageZones, path)
                   after == containers'[c].dropdowns
               IN  /\ path = [i \in 1..d |->
                                 IF i = d THEN v ELSE containers[c].dropdowns[i].value]
                   /\ Len(after) = IF Len(choices) > 0 THEN d + 1 ELSE d
                   /\ Len(after) > d <=>
                          /\ getSubComponentValuesOfLocale(path) # null
                          /\ getSubComponentValuesOfLocale(path) # array(<<>>)
                   /\ Len(after) > d =>
                          /\ after[d + 1].value = SELECT
                          /\ [i \in 1..Len(after[d + 1].options) |->
                                  after[d + 1].options[i].value]
                                 = <<SELECT>> \o choices
                   /\ containers'[3 - c].dropdowns = containers[3 - c].dropdowns

C22_Cascade == [][C22_CascadeStep]_vars

\* the origin had the three dropdowns of 'A/x/r' and the record of that
\* path when its area was changed to 'B': one dropdown is left
C22_Witness ==
    /\ fn = "updateStoredTimezones"
    /\ Selection(containers, ORIGIN) = <<<<"B">>>>
    /\ Record(CURRENT_TIMEZONES, ORIGIN) # null
    /\ Record(CURRENT_TIMEZONES, ORIGIN).timezone = <<"A", "/", "x", "/", "r">>
    /\ Len(Selection(containers, TARGET)) = 3

(***************************************************************************)
(* C23: in every reachable state without an outstanding fetch, a role that *)
(* has a record has a complete path selected in its dropdowns, and the     *)
(* record is the one the service gives for that path.                      *)
(***************************************************************************)
C23_RecordOfSelectedPath ==
    fetches = {} =>
        \A role \in {ORIGIN, TARGET} :
            Record(CURRENT_TIMEZONES, role) # null =>
                LET path == Selection(containers, role)
                IN  /\ Complete(PageZones, path)
                    /\ Record(CURRENT_TIMEZONES, role)
                           = [timezone |-> join(path, <<"/">>),
                              utc_offset |-> OffsetOfPath(join(path, <<"/">>))]

\* whether the zone list has exactly the path p
inList(zones, p) == \E i \in 1..Len(zones) : zones[i].components = p

(***************************************************************************)
(* C24 as claimed: every path of the zone list resolves, over the catalog  *)
(* built from the list, to the empty list, also a path that another path   *)
(* of the list continues.                                                  *)
(***************************************************************************)
C24_EveryZoneSelectable ==
    (fn = "getSubComponentValuesOfLocale" /\ inList(arg.zones, arg.locale))
        => ret = array(<<>>)

(***************************************************************************)
(* C24 as amended: every path of the zone list that no other path of the   *)
(* list continues resolves to the empty list; a path of the list that      *)
(* another one continues resolves to a list that is not empty, its         *)
(* continuations, and is not complete.                                     *)
(***************************************************************************)
C24_LeafZoneSelectable ==
    (fn = "getSubComponentValuesOfLocale" /\ inList(arg.zones, arg.locale)) =>
        /\ Complete(arg.zones, arg.locale) => ret = array(<<>>)
        /\ HasChoices(arg.zones, arg.locale) =>
               /\ ret # null
               /\ ret # array(<<>>)
               /\ {ret.values[i] : i \in 1..Len(ret.values)}
                      = {c[Len(arg.locale) + 1] :
                            c \in {arg.zones[i].components : i \in
                                      {j \in 1..Len(arg.zones) :
                                          /\ Len(arg.zones[j].components) > Len(arg.locale)
                                          /\ SubSeq(arg.zones[j].components, 1, Len(arg.locale))
                                                 = arg.locale}}}

\* a location without regions is complete, next to a listed location that
\* a listed region continues
C24_Witness ==
    /\ fn = "getSubComponentValuesOfLocale"
    /\ arg.zones = <<Zone(<<<<"A">>, <<"x">>>>),
                     Zone(<<<<"A">>, <<"x">>, <<"r">>>>),
                     Zone(<<<<"A">>, <<"y">>>>)>>
    /\ arg.locale = <<<<"A">>, <<"y">>>>
    /\ ret = array(<<>>)

(***************************************************************************)
(* C25: in every reachable state the label of each role reads 'UTC: N/A'   *)
(* when the role has no record, and 'UTC: ' followed by the utc_offset of  *)
(* the record when it has one.                                             *)
(***************************************************************************)
C25_LabelOfRecord ==
    \A role \in {ORIGIN, TARGET} :
        get(utcOffsetText, role) =
            IF Record(CURRENT_TIMEZONES, role) = null
            THEN <<"U", "T", "C", ":", " ", "N", "/", "A">>
            ELSE <<"U", "T", "C", ":", " ">>
                     \o Record(CURRENT_TIMEZONES, role).utc_offset

\* after a swap: the record that was the target's is the origin's, with its
\* label, and the target has none
C25_Witness ==
    /\ fn = "swapOriginAndTargetTimezones"
    /\ Record(CURRENT_TIMEZONES, ORIGIN) # null
    /\ Record(CURRENT_TIMEZONES, TARGET) = null
    /\ get(utcOffsetText, ORIGIN)
           = <<"U", "T", "C", ":", " ">> \o Record(CURRENT_TIMEZONES, ORIGIN).utc_offset
    /\ get(utcOffsetText, TARGET) = <<"U", "T", "C", ":", " ", "N", "/", "A">>

\* records, labels and selections of both roles after a second swap are
\* those before the swap of this step
RolesRestored ==
    /\ swappedRoles(CURRENT_TIMEZONES') = CURRENT_TIMEZONES
    /\ swappedRoles(utcOffsetText') = utcOffsetText
    /\ LET again == swappedContainers(containers', originDropdownContainer',
                                      targetDropdownContainer')
       IN  \A role \in {ORIGIN, TARGET} :
               Selection(again, role) = Selection(containers, role)

\* time input and output after a second swap are those before the swap of
\* this step
TimesRestored ==
    /\ swappedTimeInput(timeInput', timeOutput') = timeInput
    /\ swappedTimeOutput(timeInput', timeOutput') = timeOutput

(***************************************************************************)
(* C26 as claimed: from a state without an outstanding fetch, two swaps    *)
(* give back the records, labels and selections of both roles, the time    *)
(* input and the output, also when a time is entered and the output is the *)
(* placeholder.                                                            *)
(***************************************************************************)
C26_SwapTwiceStep ==
    (fn' = "swapOriginAndTargetTimezones" /\ fetches = {}) =>
        RolesRestored /\ TimesRestored

C26_SwapTwiceUnlessInputLostStep ==
    (fn' = "swapOriginAndTargetTimezones" /\ fetches = {}) =>
        /\ RolesRestored
        /\ (timeInput = <<>> \/ timeOutput # PLACEHOLDER) => TimesRestored
        /\ (timeInput # <<>> /\ timeOutput = PLACEHOLDER) =>
               /\ timeInput' = <<>>
               /\ swappedTimeInput(timeInput', timeOutput') = <<>>
               /\ swappedTimeOutput(timeInput', timeOutput') = PLACEHOLDER

=============================================================================
